---- MODULE Spec2Model ----
(***************************************************************************)
(* Model of the buyer/seller negotiation simulator:                        *)
(*   negotiation_agent_code_warriors.py  (deterministic YourBuyerAgent,    *)
(*       ExampleSimpleAgent, MockSellerAgent, run_negotiation_test)        *)
(*   buyer_agent_team_code_warriors.py   (LLM-backed YourBuyerAgent,       *)
(*       MockSellerAgent, run_negotiation_test; driver and seller are      *)
(*       textually the same as in the first file)                          *)
(*                                                                         *)
(* Prices are Python ints.  The code multiplies them by binary floating    *)
(* point literals (0.65, 0.9, 1.1, 1.15, ...) and truncates with int() or  *)
(* compares; the operators below compute exactly what IEEE-754 double      *)
(* arithmetic yields, using integers only.                                 *)
(***************************************************************************)
EXTENDS Integers, Sequences, FiniteSets, TLC

VARIABLES
    agent,          \* which buyer_agent object run_negotiation_test was given
    market,         \* product.base_market_price
    your_budget,    \* context.your_budget  (= buyer_budget)
    min_price,      \* seller.min_price     (= seller_min)
    current_round,  \* context.current_round
    seller_offers,  \* context.seller_offers
    your_offers,    \* context.your_offers
    messages,       \* context.messages
    round_num,      \* loop variable of "for round_num in range(10)"
    seller_price,   \* local seller_price of run_negotiation_test
    buyer_offer,    \* local buyer_offer
    status,         \* local status (a DealStatus)
    seller_accepts, \* local seller_accepts
    deal_made,      \* local deal_made
    final_price,    \* local final_price: None or Some(p)
    template,       \* index drawn by random.choice in mirror_and_frame
    parsed,         \* number of service replies that carried a parsable number
    result,         \* the dict returned by run_negotiation_test
    pc,             \* position of the driver
    arg,            \* arguments of a direct call of a strategy method
    ret             \* value returned by that call

ctx  == <<current_round, seller_offers, your_offers, messages>>
cfg  == <<agent, market, your_budget, min_price>>
loc  == <<round_num, seller_price, buyer_offer, status, seller_accepts,
          deal_made, final_price, template, parsed, result, pc>>
call == <<arg, ret>>
vars == <<cfg, ctx, loc, call>>

(***************************************************************************)
(* Bounds of the model                                                     *)
(***************************************************************************)
MaxMarket     == 3     \* market prices 1, 7, .. 1 + 6 * MaxMarket
MaxBudget     == 4     \* budgets 2, 7, .. 2 + 5 * MaxBudget
MaxSellerMin  == 6     \* seller minimums 0, 4, .. 4 * MaxSellerMin
MaxLLMAmount  == 3     \* numbers in the service text 0, 8, .. 8 * MaxLLMAmount
MaxParsed     == 1     \* parsable service replies per session
MaxCallOffer  == 100   \* buyer offers of direct seller calls -2..MaxCallOffer
MaxCallMin    == 100   \* seller minimums of direct seller calls 0..MaxCallMin
MaxCallPrice  == 12    \* seller prices of direct buyer calls 1, 3, .. 1 + 2 * MaxCallPrice

\* the loop written as range(11)
MAX_ROUNDS_eleven == 10 + 1

MAX_ROUNDS == 10       \* range(10)

None    == {}
Some(p) == {p}

Min(a, b) == IF a <= b THEN a ELSE b
Max(a, b) == IF a >= b THEN a ELSE b
Last(s)   == s[Len(s)]

(***************************************************************************)
(* Floating point                                                          *)
(***************************************************************************)
\* int(n/d) for d > 0: Python's int() truncates toward zero
Trunc(n, d) == IF n >= 0 THEN n \div d ELSE -((-n) \div d)

\* int(x * c) for a literal c = p/100 whose double is close enough to p/100
\* that x*c never rounds across an integer (0.05 0.1 0.15 0.6 0.65 0.8 0.9
\* 1.05 1.1 1.5): the truncation of the exact product
IntMul(x, p) == Trunc(x * p, 100)

\* largest power of two <= n, n >= 1
RECURSIVE Pow2Floor(_)
Pow2Floor(n) == IF n < 2 THEN 1 ELSE 2 * Pow2Floor(n \div 2)

\* x * 1.15 where the exact product is an integer N: the double 1.15 is
\* 0.4 ulp below 23/20, so the product is below N by 0.4*x*2^-52 and rounds
\* to the double under N when that exceeds half an ulp of N's binade
RoundsBelow115(x) ==
    /\ x > 0
    /\ x % 20 = 0
    /\ 8 * x > 10 * Pow2Floor((23 * x) \div 20)

\* int(x * 1.15)
RECURSIVE IntMul115(_)
IntMul115(x) ==
    IF x < 0 THEN -IntMul115(-x)
    ELSE IF RoundsBelow115(x) THEN (23 * x) \div 20 - 1
    ELSE (115 * x) \div 100

\* m * 1.1 where the exact product is an integer N: the double 1.1 is 0.4 ulp
\* above 11/10, so the product rounds to the double above N when
\* 0.4*m*2^-52 exceeds half an ulp of N's binade
RoundsAbove110(m) ==
    /\ m > 0
    /\ m % 10 = 0
    /\ 8 * m > 10 * Pow2Floor((11 * m) \div 10)

\* o >= m * 1.1   (o an int, m a non-negative int)
GeMul110(o, m) ==
    IF RoundsAbove110(m) THEN o > (11 * m) \div 10
    ELSE 10 * o >= 11 * m

\* o <= x * (p/100) and o >= x * (p/100) for the literals 0.85 0.9 0.95, whose
\* products with an int never round across an integer
LeMul(o, x, p) == 100 * o <= p * x
GeMul(o, x, p) == 100 * o >= p * x

(***************************************************************************)
(* MockSellerAgent                                                         *)
(***************************************************************************)
get_opening_price(base_market_price) == IntMul(base_market_price, 150)

\* the counter without the max(self.min_price, ...) clamp
respond_to_buyer_unclamped(offer, rnd, minp) ==
    IF GeMul110(offer, minp)
    THEN [price |-> offer, message |-> "deal", accepted |-> TRUE]
    ELSE IF rnd >= 8
    THEN [price |-> IntMul(offer, 105), message |-> "final", accepted |-> FALSE]
    ELSE [price |-> IntMul115(offer), message |-> "come_down", accepted |-> FALSE]

respond_to_buyer(offer, rnd, minp) ==
    IF GeMul110(offer, minp)
    THEN [price |-> offer, message |-> "deal", accepted |-> TRUE]
    ELSE IF rnd >= 8
    THEN [price |-> Max(minp, IntMul(offer, 105)),
          message |-> "final", accepted |-> FALSE]
    ELSE [price |-> Max(minp, IntMul115(offer)),
          message |-> "come_down", accepted |-> FALSE]

(***************************************************************************)
(* Deterministic YourBuyerAgent (negotiation_agent_code_warriors.py)       *)
(***************************************************************************)
anchor_opening_offer(base_market_price, budget) ==
    Min(IntMul(base_market_price, 65), budget)

YourBuyerAgent_generate_opening_offer(base_market_price, budget) ==
    LET opening_price == anchor_opening_offer(base_market_price, budget)
    IN  [price |-> opening_price, message |-> <<"begin", opening_price>>]

\* the BATNA test without "and seller_price <= context.your_budget"
evaluate_batna_market_only(base_market_price, budget, sp) ==
    LeMul(sp, base_market_price, 90)

evaluate_batna(base_market_price, budget, sp) ==
    LeMul(sp, base_market_price, 90) /\ sp <= budget

concession_pattern(offers, budget, rnd, sp) ==
    LET last_offer == IF offers # <<>> THEN Last(offers) ELSE budget
        concession == IF rnd < 3 THEN IntMul(sp, 5)
                      ELSE IF rnd < 7 THEN IntMul(sp, 10)
                      ELSE IntMul(sp, 15)
        counter_offer == Min(last_offer + concession, budget)
    IN  Min(counter_offer, sp - 1)

\* tmpl is the index random.choice picks among the three response templates,
\* which differ in wording only; the text is kept as a tag and the price
mirror_and_frame(counter_offer, tmpl) == <<"counter", counter_offer>>

\* the counter offer is lowered by the index of the template chosen
YourBuyerAgent_respond_template_priced(base_market_price, budget, rnd, offers, sp, tmpl) ==
    IF evaluate_batna(base_market_price, budget, sp)
       /\ LeMul(sp, base_market_price, 90)
    THEN [status |-> "ACCEPTED", price |-> sp, message |-> <<"agreed", sp>>]
    ELSE LET counter_offer == concession_pattern(offers, budget, rnd, sp) - tmpl
             response_msg  == mirror_and_frame(counter_offer, tmpl)
         IN  [status |-> "ONGOING", price |-> counter_offer,
              message |-> IF rnd >= 8 THEN response_msg \o <<"inevitable">>
                          ELSE response_msg]

YourBuyerAgent_respond_to_seller_offer(base_market_price, budget, rnd, offers, sp, tmpl) ==
    IF evaluate_batna(base_market_price, budget, sp)
       /\ LeMul(sp, base_market_price, 90)
    THEN [status |-> "ACCEPTED", price |-> sp, message |-> <<"agreed", sp>>]
    ELSE LET counter_offer == concession_pattern(offers, budget, rnd, sp)
             response_msg  == mirror_and_frame(counter_offer, tmpl)
         IN  [status |-> "ONGOING", price |-> counter_offer,
              message |-> IF rnd >= 8 THEN response_msg \o <<"inevitable">>
                          ELSE response_msg]

(***************************************************************************)
(* ExampleSimpleAgent (negotiation_agent_code_warriors.py)                 *)
(***************************************************************************)
ExampleSimpleAgent_generate_opening_offer(base_market_price, budget) ==
    LET opening == Min(IntMul(base_market_price, 60), budget)
    IN  [price |-> opening, message |-> <<"interested", opening>>]

\* on acceptance the agent returns seller_price - 1 where the code returns
\* seller_price
ExampleSimpleAgent_respond_accepting_lower(base_market_price, budget, offers, sp) ==
    IF sp <= budget /\ LeMul(sp, base_market_price, 85)
    THEN [status |-> "ACCEPTED", price |-> sp - 1, message |-> <<"works", sp>>]
    ELSE LET last_offer == IF offers # <<>> THEN Last(offers) ELSE 0
             counter    == Min(IntMul(last_offer, 110), budget)
         IN  IF GeMul(counter, sp, 95)
             THEN LET close == Min(sp - 1000, budget)
                  IN  [status |-> "ONGOING", price |-> close,
                       message |-> <<"steep", close>>]
             ELSE [status |-> "ONGOING", price |-> counter,
                   message |-> <<"pushing", counter>>]

ExampleSimpleAgent_respond_to_seller_offer(base_market_price, budget, offers, sp) ==
    IF sp <= budget /\ LeMul(sp, base_market_price, 85)
    THEN [status |-> "ACCEPTED", price |-> sp, message |-> <<"works", sp>>]
    ELSE LET last_offer == IF offers # <<>> THEN Last(offers) ELSE 0
             counter    == Min(IntMul(last_offer, 110), budget)
         IN  IF GeMul(counter, sp, 95)
             THEN LET close == Min(sp - 1000, budget)
                  IN  [status |-> "ONGOING", price |-> close,
                       message |-> <<"steep", close>>]
             ELSE [status |-> "ONGOING", price |-> counter,
                   message |-> <<"pushing", counter>>]

(***************************************************************************)
(* LLM-backed YourBuyerAgent (buyer_agent_team_code_warriors.py)           *)
(*                                                                         *)
(* The reply of ollama.chat is text the agent searches with two regular    *)
(* expressions.  A reply is modelled by what the searches find in it:      *)
(*   offer: None, or Some(n) for the digits after the offer field          *)
(* (the message field only selects the message text).  A call that raises  *)
(* is handled by the driver actions, which never reach these operators.    *)
(***************************************************************************)
LlmBuyerAgent_generate_opening_offer(base_market_price, budget, offer) ==
    LET fallback     == IntMul(base_market_price, 80)
        offer_amount == IF offer # None
                        THEN Min(CHOOSE n \in offer : TRUE, budget)
                        ELSE fallback
    IN  [price |-> offer_amount, message |-> <<"reply", offer_amount>>]

\* the round-10 fallback without "and seller_price <= context.your_budget"
LlmBuyerAgent_respond_any_price_at_cap(base_market_price, budget, rnd, sp, offer) ==
    LET fallback      == IntMul(base_market_price, 90)
        counter_offer == IF offer # None
                         THEN Min(CHOOSE n \in offer : TRUE, budget)
                         ELSE fallback
    IN  IF /\ sp <= budget
           /\ \/ (rnd < 8 /\ LeMul(sp, base_market_price, 90))
              \/ (rnd >= 8 /\ sp <= base_market_price)
        THEN [status |-> "ACCEPTED", price |-> sp, message |-> <<"accepted", sp>>]
        ELSE IF rnd >= 10
        THEN [status |-> "ACCEPTED", price |-> sp, message |-> <<"fine", sp>>]
        ELSE [status |-> "ONGOING", price |-> counter_offer,
              message |-> <<"reply", counter_offer>>]

LlmBuyerAgent_respond_to_seller_offer(base_market_price, budget, rnd, sp, offer) ==
    LET fallback      == IntMul(base_market_price, 90)
        counter_offer == IF offer # None
                         THEN Min(CHOOSE n \in offer : TRUE, budget)
                         ELSE fallback
    IN  IF /\ sp <= budget
           /\ \/ (rnd < 8 /\ LeMul(sp, base_market_price, 90))
              \/ (rnd >= 8 /\ sp <= base_market_price)
        THEN [status |-> "ACCEPTED", price |-> sp, message |-> <<"accepted", sp>>]
        ELSE IF rnd >= 10 /\ sp <= budget
        THEN [status |-> "ACCEPTED", price |-> sp, message |-> <<"fine", sp>>]
        ELSE [status |-> "ONGOING", price |-> counter_offer,
              message |-> <<"reply", counter_offer>>]

Agents == {"YourBuyerAgent", "LlmBuyerAgent", "ExampleSimpleAgent"}

(***************************************************************************)
(* run_negotiation_test                                                    *)
(***************************************************************************)
MarketPrices == {1 + 6 * k : k \in 0..MaxMarket}
Budgets      == {2 + 5 * k : k \in 0..MaxBudget}
SellerMins   == {4 * k : k \in 0..MaxSellerMin}
Templates    == 0..2
\* what the regular expression for the number can find in a reply of the
\* service: nothing, or a string of digits
Replies      == {None} \cup {Some(8 * k) : k \in 0..MaxLLMAmount}

NoCall == [fn |-> "none"]

\* seller = MockSellerAgent(seller_min); context = NegotiationContext(...)
Init ==
    /\ agent \in Agents
    /\ market \in MarketPrices
    /\ your_budget \in Budgets
    /\ min_price \in SellerMins
    /\ current_round = 0
    /\ seller_offers = <<>>
    /\ your_offers = <<>>
    /\ messages = <<>>
    /\ round_num = 0
    /\ seller_price = 0
    /\ buyer_offer = 0
    /\ status = "UNSET"
    /\ seller_accepts = FALSE
    /\ deal_made = FALSE
    /\ final_price = None
    /\ template = 0
    /\ parsed = 0
    /\ result = None
    /\ pc = "NOT_STARTED"
    /\ arg = NoCall
    /\ ret = NoCall

\* the opening price is recorded without its message
SellerOpens_without_message ==
    /\ pc = "NOT_STARTED"
    /\ LET price == get_opening_price(market)
       IN  /\ seller_price' = price
           /\ seller_offers' = Append(seller_offers, price)
    /\ deal_made' = FALSE
    /\ final_price' = None
    /\ round_num' = 0
    /\ pc' = "AWAITING_BUYER"
    /\ UNCHANGED <<cfg, current_round, your_offers, messages, buyer_offer,
                   status, seller_accepts, template, parsed, result, call>>

\* "Seller opens" and the initialisation of deal_made and final_price
SellerOpens ==
    /\ pc = "NOT_STARTED"
    /\ LET price == get_opening_price(market)
       IN  /\ seller_price' = price
           /\ seller_offers' = Append(seller_offers, price)
           /\ messages' = Append(messages,
                  [role |-> "seller", message |-> <<"asking", price>>])
    /\ deal_made' = FALSE
    /\ final_price' = None
    /\ round_num' = 0
    /\ pc' = "AWAITING_BUYER"
    /\ UNCHANGED <<cfg, current_round, your_offers, buyer_offer, status,
                   seller_accepts, template, parsed, result, call>>

\* final_price = context.seller_offers[0] where the code has seller_price
BuyerTurn_first_seller_offer(st, price, msg) ==
    /\ current_round' = round_num + 1
    /\ status' = st
    /\ buyer_offer' = price
    /\ your_offers' = Append(your_offers, price)
    /\ messages' = Append(messages, [role |-> "buyer", message |-> msg])
    /\ IF st = "ACCEPTED"
       THEN /\ deal_made' = TRUE
            /\ final_price' = Some(seller_offers[1])
            /\ pc' = "CONCLUDED"
       ELSE /\ UNCHANGED <<deal_made, final_price>>
            /\ pc' = "AWAITING_SELLER"
    /\ UNCHANGED <<cfg, seller_offers, round_num, seller_price,
                   seller_accepts, result, call>>

\* the part of one loop iteration from its head to the test of status, given
\* what the buyer strategy returned
BuyerTurn(st, price, msg) ==
    /\ current_round' = round_num + 1
    /\ status' = st
    /\ buyer_offer' = price
    /\ your_offers' = Append(your_offers, price)
    /\ messages' = Append(messages, [role |-> "buyer", message |-> msg])
    /\ IF st = "ACCEPTED"
       THEN /\ deal_made' = TRUE
            /\ final_price' = Some(seller_price)
            /\ pc' = "CONCLUDED"
       ELSE /\ UNCHANGED <<deal_made, final_price>>
            /\ pc' = "AWAITING_SELLER"
    /\ UNCHANGED <<cfg, seller_offers, round_num, seller_price,
                   seller_accepts, result, call>>

\* status = DealStatus.ACCEPTED where the code has DealStatus.ONGOING
OpeningYourBuyerAgent_accepting ==
    /\ pc = "AWAITING_BUYER" /\ round_num = 0 /\ agent = "YourBuyerAgent"
    /\ LET r == YourBuyerAgent_generate_opening_offer(market, your_budget)
       IN  BuyerTurn("ACCEPTED", r.price, r.message)
    /\ UNCHANGED <<template, parsed>>

\* round_num == 0: generate_opening_offer, status = DealStatus.ONGOING
OpeningYourBuyerAgent ==
    /\ pc = "AWAITING_BUYER" /\ round_num = 0 /\ agent = "YourBuyerAgent"
    /\ LET r == YourBuyerAgent_generate_opening_offer(market, your_budget)
       IN  BuyerTurn("ONGOING", r.price, r.message)
    /\ UNCHANGED <<template, parsed>>

OpeningExampleSimpleAgent ==
    /\ pc = "AWAITING_BUYER" /\ round_num = 0 /\ agent = "ExampleSimpleAgent"
    /\ LET r == ExampleSimpleAgent_generate_opening_offer(market, your_budget)
       IN  BuyerTurn("ONGOING", r.price, r.message)
    /\ UNCHANGED <<template, parsed>>

OpeningLlmBuyerAgent ==
    /\ pc = "AWAITING_BUYER" /\ round_num = 0 /\ agent = "LlmBuyerAgent"
    /\ \E offer \in Replies :
          /\ offer # None => parsed < MaxParsed
          /\ parsed' = IF offer # None THEN parsed + 1 ELSE parsed
          /\ LET r == LlmBuyerAgent_generate_opening_offer(market, your_budget, offer)
             IN  BuyerTurn("ONGOING", r.price, r.message)
    /\ UNCHANGED template

\* respond_to_seller_offer in every round, the first one too
RespondYourBuyerAgent_every_round ==
    /\ pc = "AWAITING_BUYER" /\ round_num >= 0 /\ agent = "YourBuyerAgent"
    /\ \E tmpl \in Templates :
          LET r == YourBuyerAgent_respond_to_seller_offer(market, your_budget,
                       round_num + 1, your_offers, seller_price, tmpl)
          IN  /\ BuyerTurn(r.status, r.price, r.message)
              /\ template' = IF r.status = "ONGOING" THEN tmpl ELSE template
    /\ UNCHANGED parsed

\* round_num > 0: respond_to_seller_offer(context, seller_price, seller_msg)
RespondYourBuyerAgent ==
    /\ pc = "AWAITING_BUYER" /\ round_num > 0 /\ agent = "YourBuyerAgent"
    /\ \E tmpl \in Templates :
          LET r == YourBuyerAgent_respond_to_seller_offer(market, your_budget,
                       round_num + 1, your_offers, seller_price, tmpl)
          IN  /\ BuyerTurn(r.status, r.price, r.message)
              /\ template' = IF r.status = "ONGOING" THEN tmpl ELSE template
    /\ UNCHANGED parsed

RespondExampleSimpleAgent ==
    /\ pc = "AWAITING_BUYER" /\ round_num > 0 /\ agent = "ExampleSimpleAgent"
    /\ LET r == ExampleSimpleAgent_respond_to_seller_offer(market, your_budget,
                    your_offers, seller_price)
       IN  BuyerTurn(r.status, r.price, r.message)
    /\ UNCHANGED <<template, parsed>>

RespondLlmBuyerAgent ==
    /\ pc = "AWAITING_BUYER" /\ round_num > 0 /\ agent = "LlmBuyerAgent"
    /\ \E offer \in Replies :
          /\ offer # None => parsed < MaxParsed
          /\ parsed' = IF offer # None THEN parsed + 1 ELSE parsed
          /\ LET r == LlmBuyerAgent_respond_to_seller_offer(market, your_budget,
                          round_num + 1, seller_price, offer)
             IN  BuyerTurn(r.status, r.price, r.message)
    /\ UNCHANGED template

\* "import ollama" or ollama.chat raises: nothing in the agent or the driver
\* catches it, run_negotiation_test is left by the exception
LlmRaises ==
    /\ pc = "AWAITING_BUYER" /\ agent = "LlmBuyerAgent"
    /\ current_round' = round_num + 1
    /\ pc' = "RAISED"
    /\ UNCHANGED <<cfg, seller_offers, your_offers, messages, round_num,
                   seller_price, buyer_offer, status, seller_accepts,
                   deal_made, final_price, template, parsed, result, call>>

\* context.seller_offers = [seller_price] where the code appends
SellerResponds_keeps_latest ==
    /\ pc = "AWAITING_SELLER"
    /\ LET r == respond_to_buyer(buyer_offer, round_num, min_price)
       IN  /\ seller_price' = r.price
           /\ seller_accepts' = r.accepted
           /\ messages' = Append(messages,
                  [role |-> "seller", message |-> <<r.message, r.price>>])
           /\ IF r.accepted
              THEN /\ deal_made' = TRUE
                   /\ final_price' = Some(buyer_offer)
                   /\ pc' = "CONCLUDED"
                   /\ UNCHANGED <<seller_offers, round_num>>
              ELSE /\ seller_offers' = <<r.price>>
                   /\ UNCHANGED <<deal_made, final_price>>
                   /\ IF round_num + 1 < MAX_ROUNDS
                      THEN round_num' = round_num + 1 /\ pc' = "AWAITING_BUYER"
                      ELSE round_num' = round_num /\ pc' = "CONCLUDED"
    /\ UNCHANGED <<cfg, current_round, your_offers, buyer_offer, status,
                   template, parsed, result, call>>

\* "Seller responds" to the end of the loop body
SellerResponds ==
    /\ pc = "AWAITING_SELLER"
    /\ LET r == respond_to_buyer(buyer_offer, round_num, min_price)
       IN  /\ seller_price' = r.price
           /\ seller_accepts' = r.accepted
           /\ messages' = Append(messages,
                  [role |-> "seller", message |-> <<r.message, r.price>>])
           /\ IF r.accepted
              THEN /\ deal_made' = TRUE
                   /\ final_price' = Some(buyer_offer)
                   /\ pc' = "CONCLUDED"
                   /\ UNCHANGED <<seller_offers, round_num>>
              ELSE /\ seller_offers' = Append(seller_offers, r.price)
                   /\ UNCHANGED <<deal_made, final_price>>
                   /\ IF round_num + 1 < MAX_ROUNDS
                      THEN round_num' = round_num + 1 /\ pc' = "AWAITING_BUYER"
                      ELSE round_num' = round_num /\ pc' = "CONCLUDED"
    /\ UNCHANGED <<cfg, current_round, your_offers, buyer_offer, status,
                   template, parsed, result, call>>

\* savings = product.base_market_price - final_price where the code has
\* buyer_budget - final_price
make_result_savings_from_market ==
    LET fp == CHOOSE p \in final_price : TRUE
    IN  [deal_made        |-> deal_made,
         final_price      |-> final_price,
         rounds           |-> current_round,
         savings          |-> IF deal_made THEN market - fp ELSE 0,
         savings_pct      |-> IF deal_made
                              THEN <<(your_budget - fp) * 100, your_budget>>
                              ELSE <<0, 1>>,
         below_market_pct |-> IF deal_made
                              THEN <<(market - fp) * 100, market>>
                              ELSE <<0, 1>>,
         conversation     |-> messages]

\* "Calculate results": the percentages are kept as <<numerator, denominator>>
make_result ==
    LET fp == CHOOSE p \in final_price : TRUE
    IN  [deal_made        |-> deal_made,
         final_price      |-> final_price,
         rounds           |-> current_round,
         savings          |-> IF deal_made THEN your_budget - fp ELSE 0,
         savings_pct      |-> IF deal_made
                              THEN <<(your_budget - fp) * 100, your_budget>>
                              ELSE <<0, 1>>,
         below_market_pct |-> IF deal_made
                              THEN <<(market - fp) * 100, market>>
                              ELSE <<0, 1>>,
         conversation     |-> messages]

\* the two percentages divide by buyer_budget and by base_market_price
ResultDefined == deal_made => (your_budget # 0 /\ market # 0)

\* the summary also appends a closing entry to context.messages
ComputeResult_appends_summary ==
    /\ pc = "CONCLUDED"
    /\ ResultDefined
    /\ result' = Some(make_result)
    /\ messages' = Append(messages, [role |-> "driver", message |-> <<"summary", 0>>])
    /\ pc' = "RETURNED"
    /\ UNCHANGED <<cfg, current_round, seller_offers, your_offers, round_num,
                   seller_price, buyer_offer, status, seller_accepts, deal_made,
                   final_price, template, parsed, call>>

\* the driver computes the result and does not return it
ComputeResult_not_returning ==
    /\ pc = "CONCLUDED"
    /\ ResultDefined
    /\ result' = Some(make_result)
    /\ pc' = "CONCLUDED"
    /\ UNCHANGED <<cfg, ctx, round_num, seller_price, buyer_offer, status,
                   seller_accepts, deal_made, final_price, template, parsed, call>>

ComputeResult ==
    /\ pc = "CONCLUDED"
    /\ ResultDefined
    /\ result' = Some(make_result)
    /\ pc' = "RETURNED"
    /\ UNCHANGED <<cfg, ctx, round_num, seller_price, buyer_offer, status,
                   seller_accepts, deal_made, final_price, template, parsed, call>>

\* ZeroDivisionError in the percentages: the exception leaves the driver
ResultRaises ==
    /\ pc = "CONCLUDED"
    /\ ~ResultDefined
    /\ pc' = "RAISED"
    /\ UNCHANGED <<cfg, ctx, round_num, seller_price, buyer_offer, status,
                   seller_accepts, deal_made, final_price, template, parsed,
                   result, call>>

Next ==
    \/ SellerOpens
    \/ OpeningYourBuyerAgent
    \/ OpeningExampleSimpleAgent
    \/ OpeningLlmBuyerAgent
    \/ RespondYourBuyerAgent
    \/ RespondExampleSimpleAgent
    \/ RespondLlmBuyerAgent
    \/ LlmRaises
    \/ SellerResponds
    \/ ComputeResult

Spec == Init /\ [][Next]_vars

\* the driver is one synchronous loop: whenever a step is possible, one is taken
FairSpec == Spec /\ WF_vars(Next)

\* ---- sessions started with a budget or a market price that is not positive
ConfigMarkets == {-5, 0, 7}
ConfigBudgets == {-3, 0, 7}

InitConfig ==
    /\ agent \in Agents
    /\ market \in ConfigMarkets
    /\ your_budget \in ConfigBudgets
    /\ market <= 0 \/ your_budget <= 0
    /\ min_price \in SellerMins
    /\ current_round = 0
    /\ seller_offers = <<>>
    /\ your_offers = <<>>
    /\ messages = <<>>
    /\ round_num = 0
    /\ seller_price = 0
    /\ buyer_offer = 0
    /\ status = "UNSET"
    /\ seller_accepts = FALSE
    /\ deal_made = FALSE
    /\ final_price = None
    /\ template = 0
    /\ parsed = 0
    /\ result = None
    /\ pc = "NOT_STARTED"
    /\ arg = NoCall
    /\ ret = NoCall

NextConfig == Next \/ ResultRaises

SpecConfig == InitConfig /\ [][NextConfig]_vars

\* ---- the "easy" scenario of test_your_agent for the first test product
ScenarioMarket    == 180000
ScenarioBudget    == (ScenarioMarket * 12) \div 10
ScenarioSellerMin == (ScenarioMarket * 8) \div 10

InitScenarioA ==
    /\ agent \in Agents
    /\ market = ScenarioMarket
    /\ your_budget = ScenarioBudget
    /\ min_price = ScenarioSellerMin
    /\ current_round = 0
    /\ seller_offers = <<>>
    /\ your_offers = <<>>
    /\ messages = <<>>
    /\ round_num = 0
    /\ seller_price = 0
    /\ buyer_offer = 0
    /\ status = "UNSET"
    /\ seller_accepts = FALSE
    /\ deal_made = FALSE
    /\ final_price = None
    /\ template = 0
    /\ parsed = 0
    /\ result = None
    /\ pc = "NOT_STARTED"
    /\ arg = NoCall
    /\ ret = NoCall

\* the scenario next to the sessions of Spec
InitScenarios == Init \/ InitScenarioA
SpecScenarios == InitScenarios /\ [][Next]_vars

(***************************************************************************)
(* Direct calls of the strategy methods, one call per behaviour: the       *)
(* arguments are drawn in the initial state, the action applies the method *)
(***************************************************************************)
Rounds == 1..MAX_ROUNDS

\* the driver has not been entered
Idle ==
    /\ agent = "YourBuyerAgent"
    /\ market = 1
    /\ your_budget = 2
    /\ min_price = 0
    /\ current_round = 0
    /\ seller_offers = <<>>
    /\ your_offers = <<>>
    /\ messages = <<>>
    /\ round_num = 0
    /\ seller_price = 0
    /\ buyer_offer = 0
    /\ status = "UNSET"
    /\ seller_accepts = FALSE
    /\ deal_made = FALSE
    /\ final_price = None
    /\ template = 0
    /\ parsed = 0
    /\ result = None
    /\ pc = "IDLE"

session == <<cfg, ctx, loc>>

\* ---- MockSellerAgent(min_price).respond_to_buyer(buyer_offer, round_num)
SellerCallArgs ==
    [fn : {"respond_to_buyer"}, buyer_offer : (-2)..MaxCallOffer,
     round_num : 0..MAX_ROUNDS, min_price : 0..MaxCallMin]

InitSellerCalls ==
    /\ Idle
    /\ arg \in SellerCallArgs
    /\ ret = NoCall

CallRespondToBuyer ==
    /\ arg.fn = "respond_to_buyer" /\ ret = NoCall
    /\ LET r == respond_to_buyer(arg.buyer_offer, arg.round_num, arg.min_price)
       IN  ret' = [fn |-> "respond_to_buyer", price |-> r.price,
                   message |-> r.message, accepted |-> r.accepted]
    /\ UNCHANGED <<session, arg>>

NextSellerCalls == CallRespondToBuyer

SpecSellerCalls == InitSellerCalls /\ [][NextSellerCalls]_vars

\* ---- buyer_agent.generate_opening_offer(context) and
\* ---- buyer_agent.respond_to_seller_offer(context, seller_price, seller_message)
\* what a call of the service does: raise, or return a reply
LlmOutcomes ==
    {[raises |-> FALSE, offer |-> o] : o \in Replies}
        \cup {[raises |-> TRUE, offer |-> None]}
NoLlm == {[raises |-> FALSE, offer |-> None]}

\* context.your_offers, of which the strategies read the last element only
Histories(budget) ==
    {<<>>} \cup {<<o>> : o \in {b \in Budgets \cup {0} : b <= budget}}

CallPrices == {1 + 2 * k : k \in 0..MaxCallPrice}

OpeningCallArgs ==
    UNION {[fn : {"generate_opening_offer"}, agent : {a},
            market : MarketPrices, your_budget : Budgets,
            llm : IF a = "LlmBuyerAgent" THEN LlmOutcomes ELSE NoLlm]
           : a \in Agents}

RespondCallArgs ==
    UNION {[fn : {"respond_to_seller_offer"}, agent : {a},
            market : MarketPrices, your_budget : {b},
            current_round : Rounds, your_offers : Histories(b),
            seller_price : CallPrices,
            template : IF a = "YourBuyerAgent" THEN Templates ELSE {0},
            llm : IF a = "LlmBuyerAgent" THEN LlmOutcomes ELSE NoLlm]
           : a \in Agents, b \in Budgets}

InitBuyerCalls ==
    /\ Idle
    /\ arg \in OpeningCallArgs \cup RespondCallArgs
    /\ ret = NoCall

Returned(fn, r, st) ==
    [fn |-> fn, raised |-> FALSE, status |-> st, price |-> r.price,
     message |-> r.message]

CallGenerateOpeningOffer ==
    /\ arg.fn = "generate_opening_offer" /\ ret = NoCall
    /\ ~arg.llm.raises
    /\ LET r == CASE arg.agent = "YourBuyerAgent" ->
                       YourBuyerAgent_generate_opening_offer(arg.market, arg.your_budget)
                  [] arg.agent = "ExampleSimpleAgent" ->
                       ExampleSimpleAgent_generate_opening_offer(arg.market, arg.your_budget)
                  [] arg.agent = "LlmBuyerAgent" ->
                       LlmBuyerAgent_generate_opening_offer(arg.market, arg.your_budget,
                                                            arg.llm.offer)
       IN  ret' = Returned(arg.fn, r, "NONE")
    /\ UNCHANGED <<session, arg>>

\* the strategy itself appends its price to context.your_offers
CallRespondToSellerOffer_appends ==
    /\ arg.fn = "respond_to_seller_offer" /\ ret = NoCall
    /\ ~arg.llm.raises
    /\ LET r == CASE arg.agent = "YourBuyerAgent" ->
                       YourBuyerAgent_respond_to_seller_offer(arg.market,
                           arg.your_budget, arg.current_round, arg.your_offers,
                           arg.seller_price, arg.template)
                  [] arg.agent = "ExampleSimpleAgent" ->
                       ExampleSimpleAgent_respond_to_seller_offer(arg.market,
                           arg.your_budget, arg.your_offers, arg.seller_price)
                  [] arg.agent = "LlmBuyerAgent" ->
                       LlmBuyerAgent_respond_to_seller_offer(arg.market,
                           arg.your_budget, arg.current_round, arg.seller_price,
                           arg.llm.offer)
       IN  /\ ret' = Returned(arg.fn, r, r.status)
           /\ arg' = [arg EXCEPT !.your_offers = Append(@, r.price)]
    /\ UNCHANGED session

CallRespondToSellerOffer ==
    /\ arg.fn = "respond_to_seller_offer" /\ ret = NoCall
    /\ ~arg.llm.raises
    /\ LET r == CASE arg.agent = "YourBuyerAgent" ->
                       YourBuyerAgent_respond_to_seller_offer(arg.market,
                           arg.your_budget, arg.current_round, arg.your_offers,
                           arg.seller_price, arg.template)
                  [] arg.agent = "ExampleSimpleAgent" ->
                       ExampleSimpleAgent_respond_to_seller_offer(arg.market,
                           arg.your_budget, arg.your_offers, arg.seller_price)
                  [] arg.agent = "LlmBuyerAgent" ->
                       LlmBuyerAgent_respond_to_seller_offer(arg.market,
                           arg.your_budget, arg.current_round, arg.seller_price,
                           arg.llm.offer)
       IN  ret' = Returned(arg.fn, r, r.status)
    /\ UNCHANGED <<session, arg>>

\* the call of the service raises inside the method
CallRaises ==
    /\ arg.fn \in {"generate_opening_offer", "respond_to_seller_offer"}
    /\ ret = NoCall
    /\ arg.llm.raises
    /\ ret' = [fn |-> arg.fn, raised |-> TRUE]
    /\ UNCHANGED <<session, arg>>

NextBuyerCalls ==
    \/ CallGenerateOpeningOffer
    \/ CallRespondToSellerOffer
    \/ CallRaises

SpecBuyerCalls == InitBuyerCalls /\ [][NextBuyerCalls]_vars

\* ---- seller.get_opening_price(product)
OpeningPriceCallArgs ==
    [fn : {"get_opening_price"}, market : MarketPrices, min_price : SellerMins]

CallGetOpeningPrice ==
    /\ arg.fn = "get_opening_price" /\ ret = NoCall
    /\ LET price == get_opening_price(arg.market)
       IN  ret' = [fn |-> "get_opening_price", price |-> price,
                   message |-> <<"asking", price>>]
    /\ UNCHANGED <<session, arg>>

\* ---- direct calls of every strategy method of both parties
InitAllCalls ==
    /\ Idle
    /\ arg \in OpeningCallArgs \cup RespondCallArgs \cup SellerCallArgs
                \cup OpeningPriceCallArgs
    /\ ret = NoCall

NextAllCalls ==
    \/ NextBuyerCalls
    \/ NextSellerCalls
    \/ CallGetOpeningPrice

SpecAllCalls == InitAllCalls /\ [][NextAllCalls]_vars

\* ---- the driver together with direct calls of the seller
InitSellerAll == Init \/ InitSellerCalls
NextSellerAll == Next \/ NextSellerCalls
SpecSellerAll == InitSellerAll /\ [][NextSellerAll]_vars

(***************************************************************************)
(* Properties                                                              *)
(***************************************************************************)
IsPrefix(s, t) == Len(s) <= Len(t) /\ \A i \in 1..Len(s) : s[i] = t[i]
Concluded == pc \in {"CONCLUDED", "RETURNED"}
TheResult == CHOOSE r \in result : TRUE

\* C1: in every session, with any buyer agent and positive market price,
\* budget and seller minimum, every value appended to your_offers and the
\* final_price of any deal is <= buyer_budget.
BudgetInvariant ==
    min_price > 0 =>
        /\ \A i \in 1..Len(your_offers) : your_offers[i] <= your_budget
        /\ deal_made => \A p \in final_price : p <= your_budget

\* C2: a session never executes more than 10 rounds; once the loop has
\* started current_round is in 1..10, result['rounds'] is in 1..10, and if
\* neither party has accepted by the end of round 10 the result has
\* deal_made = False.
RoundCap ==
    /\ Len(your_offers) <= 10
    /\ round_num \in 0..9
    /\ pc \in {"AWAITING_SELLER", "CONCLUDED", "RETURNED", "RAISED"}
          => current_round \in 1..10
    /\ pc = "AWAITING_BUYER" /\ round_num > 0 => current_round \in 1..10
    /\ pc = "RETURNED" =>
          /\ TheResult.rounds \in 1..10
          /\ (status # "ACCEPTED" /\ ~seller_accepts) =>
                 (~TheResult.deal_made /\ TheResult.rounds = 10)

RoundCapWitness ==
    /\ pc = "RETURNED"
    /\ status # "ACCEPTED" /\ ~seller_accepts
    /\ Len(your_offers) = 10

\* C3: whenever the seller minimum is above the buyer budget, a session with
\* the deterministic YourBuyerAgent ends with no deal after exactly 10
\* rounds: deal_made = False, final_price = None, rounds = 10.
ScenarioTimeout ==
    (agent = "YourBuyerAgent" /\ min_price > your_budget) =>
        /\ ~deal_made /\ final_price = None
        /\ pc = "CONCLUDED" => current_round = 10
        /\ pc = "RETURNED" =>
              /\ TheResult.deal_made = FALSE
              /\ TheResult.final_price = None
              /\ TheResult.rounds = 10

ScenarioTimeoutWitness ==
    /\ agent = "YourBuyerAgent" /\ min_price > your_budget
    /\ pc = "RETURNED"
    /\ Last(seller_offers) <= (9 * market) \div 10

\* C4: respond_to_seller_offer of each buyer agent returns ACCEPTED only
\* when seller_price <= your_budget, for every round, seller price, budget
\* and market price.
AcceptanceCorrectness ==
    (ret.fn = "respond_to_seller_offer" /\ ~ret.raised /\ ret.status = "ACCEPTED")
        => arg.seller_price <= arg.your_budget

AcceptanceWitness ==
    /\ ret.fn = "respond_to_seller_offer" /\ ~ret.raised
    /\ ret.status = "ACCEPTED"
    /\ arg.agent = "LlmBuyerAgent"
    /\ arg.current_round = 10
    /\ arg.seller_price > arg.market

\* C5: whenever respond_to_buyer does not accept, the counter price it
\* returns is >= min_price, for every buyer offer and round number; hence
\* every value appended to seller_offers after the opening price is >= the
\* seller minimum.
SellerFloor ==
    /\ (ret.fn = "respond_to_buyer" /\ ~ret.accepted) => ret.price >= arg.min_price
    /\ \A i \in 2..Len(seller_offers) : seller_offers[i] >= min_price

SellerFloorWitness ==
    /\ ret.fn = "respond_to_buyer" /\ ~ret.accepted
    /\ arg.round_num < 8
    /\ arg.buyer_offer > 0
    /\ IntMul115(arg.buyer_offer) < arg.min_price
    /\ ret.price = arg.min_price

\* C6: when a session concludes because the buyer returned ACCEPTED,
\* final_price equals the last element of seller_offers; when it concludes
\* because the seller accepted, final_price equals the last element of
\* your_offers.
FinalPriceRule ==
    Concluded =>
        /\ status = "ACCEPTED" => final_price = Some(Last(seller_offers))
        /\ seller_accepts => final_price = Some(Last(your_offers))

FinalPriceWitness ==
    /\ pc = "RETURNED"
    /\ status = "ACCEPTED"
    /\ Len(seller_offers) >= 3
    /\ Last(seller_offers) # seller_offers[1]

\* C7: at every step each of seller_offers, your_offers and messages is
\* unchanged or extended at its end; the earlier contents remain as an
\* unchanged prefix.
MonotonicHistory ==
    [][/\ IsPrefix(seller_offers, seller_offers')
       /\ IsPrefix(your_offers, your_offers')
       /\ IsPrefix(messages, messages')]_vars

MonotonicHistoryWitness ==
    /\ Len(seller_offers) >= 3
    /\ Len(your_offers) >= 3
    /\ Len(messages) >= 6

\* C8: respond_to_buyer returns accepted = True exactly when
\* buyer_offer >= 1.1 x min_price, independent of the round number, and then
\* the price it returns is the buyer's offer; otherwise accepted = False.
SellerAcceptanceRule ==
    ret.fn = "respond_to_buyer" =>
        /\ ret.accepted <=> (10 * arg.buyer_offer >= 11 * arg.min_price)
        /\ ret.accepted => ret.price = arg.buyer_offer

\* C9: when respond_to_buyer does not accept, its counter is
\* max(min_price, floor(buyer_offer x g)) with g = 1.15 when round_num < 8
\* and g = 1.05 when round_num >= 8.
SellerCounterRule ==
    (ret.fn = "respond_to_buyer" /\ ~ret.accepted) =>
        ret.price = Max(arg.min_price,
                        IF arg.round_num < 8
                        THEN (115 * arg.buyer_offer) \div 100
                        ELSE (105 * arg.buyer_offer) \div 100)

\* C10: for every positive market price and positive budget,
\* generate_opening_offer of each buyer agent returns a price that is a
\* positive integer and <= your_budget, whether or not the service text
\* carries a parsable offer_amount.
OpeningOfferContract ==
    (ret.fn = "generate_opening_offer" /\ ~ret.raised) =>
        (ret.price > 0 /\ ret.price <= arg.your_budget)

\* C11: whenever respond_to_seller_offer of the deterministic YourBuyerAgent
\* returns ONGOING, for every round 1..10, positive seller price and offer
\* history with entries <= budget, the counter price is a positive integer,
\* <= your_budget and strictly less than seller_price.
CounterOfferContract ==
    (/\ ret.fn = "respond_to_seller_offer" /\ ~ret.raised
     /\ arg.agent = "YourBuyerAgent"
     /\ ret.status = "ONGOING")
        => /\ ret.price > 0
           /\ ret.price <= arg.your_budget
           /\ ret.price < arg.seller_price

\* C12: if the text-generation call of the LLM-backed YourBuyerAgent is
\* unavailable, raises or returns unparsable text, generate_opening_offer and
\* respond_to_seller_offer still return a price and a message from the local
\* fallback, and the session runs to a deal or a timeout result: no session
\* is left by an exception.
ServiceFailureRecovered ==
    agent = "LlmBuyerAgent" => pc # "RAISED"

\* the offer the LLM-backed agent makes in round i when the service text
\* carries no parsable number
FallbackOffer(i) ==
    IF i = 1
    THEN LlmBuyerAgent_generate_opening_offer(market, your_budget, None).price
    ELSE LlmBuyerAgent_respond_to_seller_offer(market, your_budget, i,
             seller_offers[i], None).price

\* C13: two sessions with the LLM-backed YourBuyerAgent on the same product,
\* budget and seller minimum, which differ only in what the service returns,
\* produce the same deal flag, final price, rounds and offer histories: every
\* session has the offer history of the session in which the service returns
\* no parsable text.
ServiceIndependence ==
    agent = "LlmBuyerAgent" =>
        \A i \in 1..Len(your_offers) : your_offers[i] = FallbackOffer(i)

\* C14: when buyer_budget <= 0 or base_market_price <= 0,
\* run_negotiation_test ends in an error outcome without recording any seller
\* or buyer offer or message and without invoking either strategy.
ConfigurationRejected ==
    (your_budget <= 0 \/ market <= 0) =>
        /\ seller_offers = <<>>
        /\ your_offers = <<>>
        /\ messages = <<>>
        /\ pc # "RETURNED"

\* C15: for a fixed completed session, computing the result record twice
\* yields identical deal_made, final_price, rounds, savings and transcript,
\* and the computation changes nothing in the session state: the record just
\* computed equals the record computed again in the state the computation
\* leaves.
SummaryIdempotent ==
    [][pc = "CONCLUDED" =>
          /\ UNCHANGED <<cfg, ctx, deal_made, final_price>>
          /\ pc' = "RETURNED" => (result' = Some(make_result) /\ make_result' = make_result)]_vars

SummaryIdempotentWitness ==
    /\ pc = "RETURNED"
    /\ deal_made
    /\ TheResult.savings > 0
    /\ Len(TheResult.conversation) >= 4

InScenarioA ==
    /\ market = ScenarioMarket
    /\ your_budget = ScenarioBudget
    /\ min_price = ScenarioSellerMin
    /\ agent \in {"YourBuyerAgent", "LlmBuyerAgent"}
    /\ parsed = 0

LargestOffer == CHOOSE o \in {your_offers[i] : i \in 1..Len(your_offers)} :
                    \A i \in 1..Len(your_offers) : your_offers[i] <= o

\* C16: with market price 180000, budget 216000 and seller minimum 144000, a
\* session with each YourBuyerAgent implementation (the LLM-backed one taking
\* its fallback prices) ends in a deal within at most 3 rounds, at a final
\* price that is at least seller minimum x 1.1 = 158400 and at most the
\* largest offer the buyer made.
ScenarioQuickAgreement ==
    InScenarioA =>
        /\ current_round <= 3
        /\ Concluded =>
              /\ deal_made
              /\ \A p \in final_price :
                    /\ 10 * p >= 11 * ScenarioSellerMin
                    /\ p <= LargestOffer

\* C16 as amended: the deal is made within at most 3 rounds at a final price
\* that is at least the seller minimum 144000 (at least 158400 for the
\* LLM-backed agent) and at most the largest offer the buyer made.
ScenarioQuickAgreementAtFloor ==
    InScenarioA =>
        /\ current_round <= 3
        /\ Concluded =>
              /\ deal_made
              /\ final_price # None
              /\ \A p \in final_price :
                    /\ p >= ScenarioSellerMin
                    /\ agent = "LlmBuyerAgent" => 10 * p >= 11 * ScenarioSellerMin
                    /\ p <= LargestOffer

ScenarioQuickAgreementWitness ==
    /\ InScenarioA
    /\ agent = "YourBuyerAgent"
    /\ pc = "RETURNED"
    /\ status = "ACCEPTED"
    /\ final_price = Some(ScenarioSellerMin)

\* C17: every session whose strategy calls return (none raises) eventually
\* reaches a concluded state and its result record is then computed; the driver
\* never stays in AWAITING_BUYER or AWAITING_SELLER forever, and the round
\* number never goes back.
Termination ==
    /\ <>(pc = "RAISED" \/ pc = "CONCLUDED")
    /\ (pc = "CONCLUDED") ~> (pc = "RETURNED" /\ result = Some(make_result))
    /\ (pc = "AWAITING_BUYER") ~> (pc # "AWAITING_BUYER")
    /\ (pc = "AWAITING_SELLER") ~> (pc # "AWAITING_SELLER")
    /\ [][round_num' >= round_num /\ current_round' >= current_round]_vars

TerminationWitness ==
    /\ pc = "RETURNED"
    /\ TheResult.rounds = MAX_ROUNDS
    /\ ~deal_made
    /\ Len(your_offers) = MAX_ROUNDS

\* C18: in every result record final_price is present exactly when deal_made
\* is True; with a deal savings = buyer_budget - final_price, and without one
\* savings, savings_pct and below_market_pct are all 0.
ResultConsistency ==
    result # None =>
        LET r == TheResult
        IN  /\ (r.final_price # None) <=> r.deal_made
            /\ r.deal_made =>
                  \A p \in r.final_price : r.savings = your_budget - p
            /\ ~r.deal_made =>
                  /\ r.savings = 0
                  /\ r.savings_pct[1] = 0
                  /\ r.below_market_pct[1] = 0

ResultConsistencyWitness ==
    /\ pc = "RETURNED"
    /\ TheResult.deal_made
    /\ TheResult.savings > 0
    /\ TheResult.final_price # Some(market)

\* C19: in every round the driver invokes the seller strategy with the buyer's
\* latest offer and with the session's current round number: what the seller
\* answers is respond_to_buyer(buyer_offer, context.current_round), so that
\* its late-round growth factor starts in the session's round 8.
SellerSeesCurrentRound ==
    [][pc = "AWAITING_SELLER" =>
          LET r == respond_to_buyer(buyer_offer, current_round, min_price)
          IN  /\ seller_price' = r.price
              /\ seller_accepts' = r.accepted
              /\ Last(messages').message = <<r.message, r.price>>]_vars

\* what the opening-offer variant of the session's agent can return
OpeningResults ==
    IF agent = "YourBuyerAgent"
    THEN {YourBuyerAgent_generate_opening_offer(market, your_budget)}
    ELSE IF agent = "ExampleSimpleAgent"
    THEN {ExampleSimpleAgent_generate_opening_offer(market, your_budget)}
    ELSE {LlmBuyerAgent_generate_opening_offer(market, your_budget, offer) :
              offer \in Replies}

\* what the response variant can return in round k, given the k-1 buyer
\* offers made so far and the last element of seller_offers
ResponseResults(k) ==
    IF agent = "YourBuyerAgent"
    THEN {YourBuyerAgent_respond_to_seller_offer(market, your_budget, k,
              your_offers, Last(seller_offers), tmpl) : tmpl \in Templates}
    ELSE IF agent = "ExampleSimpleAgent"
    THEN {ExampleSimpleAgent_respond_to_seller_offer(market, your_budget,
              your_offers, Last(seller_offers))}
    ELSE {LlmBuyerAgent_respond_to_seller_offer(market, your_budget, k,
              Last(seller_offers), offer) : offer \in Replies}

\* C20: the opening-offer variant is invoked exactly in round 1 and the
\* response variant in every round 2..10 that is reached; at the buyer's turn
\* in round k the state holds exactly the k-1 buyer offers of earlier rounds
\* and k seller offers, and the seller_price passed to the buyer is the last
\* element of seller_offers.
BuyerTurnOrdering ==
    /\ [](pc = "AWAITING_BUYER" =>
            /\ round_num + 1 \in 1..MAX_ROUNDS
            /\ Len(your_offers) = round_num
            /\ Len(seller_offers) = round_num + 1
            /\ seller_price = Last(seller_offers))
    /\ [][(pc = "AWAITING_BUYER" /\ pc' # "RAISED") =>
            LET k == current_round'
            IN  /\ k = round_num + 1
                /\ your_offers' = Append(your_offers, buyer_offer')
                /\ IF k = 1
                   THEN /\ status' = "ONGOING"
                        /\ [price |-> buyer_offer',
                            message |-> Last(messages').message] \in OpeningResults
                   ELSE [status |-> status', price |-> buyer_offer',
                         message |-> Last(messages').message]
                            \in ResponseResults(k)]_vars

BuyerTurnOrderingWitness ==
    /\ pc = "AWAITING_SELLER"
    /\ current_round = MAX_ROUNDS
    /\ Len(your_offers) = MAX_ROUNDS
    /\ Len(seller_offers) = MAX_ROUNDS

\* C21: respond_to_seller_offer of the LLM-backed agent returns ACCEPTED
\* exactly when seller_price <= your_budget and one of: current_round < 8 and
\* seller_price <= 0.9 x market price; current_round >= 8 and seller_price <=
\* market price; current_round >= 10.  Otherwise it returns ONGOING, and an
\* acceptance returns seller_price whatever the reply of the service holds.
GraduatedAcceptance ==
    (/\ ret.fn = "respond_to_seller_offer" /\ ~ret.raised
     /\ arg.agent = "LlmBuyerAgent")
        => LET sp == arg.seller_price
               k  == arg.current_round
               due == /\ sp <= arg.your_budget
                      /\ \/ k < 8 /\ 10 * sp <= 9 * arg.market
                         \/ k >= 8 /\ sp <= arg.market
                         \/ k >= 10
           IN  /\ ret.status = (IF due THEN "ACCEPTED" ELSE "ONGOING")
               /\ due => ret.price = sp

GraduatedAcceptanceWitness ==
    /\ ret.fn = "respond_to_seller_offer" /\ ~ret.raised
    /\ arg.agent = "LlmBuyerAgent"
    /\ arg.current_round = 8
    /\ 10 * arg.seller_price > 9 * arg.market
    /\ arg.llm.offer # None /\ arg.llm.offer # Some(arg.seller_price)
    /\ ret.status = "ACCEPTED"
    /\ ret.price = arg.seller_price

\* C22: respond_to_seller_offer of the deterministic agent returns ACCEPTED at
\* the final round (current_round = 10) for every seller_price <= your_budget,
\* and a price it accepts in some round it also accepts in every later round.
FinalRoundFallback ==
    (/\ ret.fn = "respond_to_seller_offer" /\ ~ret.raised
     /\ arg.agent = "YourBuyerAgent")
        => /\ (arg.current_round = MAX_ROUNDS /\ arg.seller_price <= arg.your_budget)
                 => ret.status = "ACCEPTED"
           /\ ret.status = "ACCEPTED" =>
                 \A k \in Rounds : k > arg.current_round =>
                     YourBuyerAgent_respond_to_seller_offer(arg.market,
                         arg.your_budget, k, arg.your_offers, arg.seller_price,
                         arg.template).status = "ACCEPTED"

\* C23: when the round cap is exhausted without either party accepting, the
\* driver sets the session's deal status to TIMEOUT; no buyer strategy returns
\* TIMEOUT itself, so the status is TIMEOUT in no other state.
TimeoutStatus ==
    /\ (Concluded /\ ~deal_made) => status = "TIMEOUT"
    /\ status = "TIMEOUT" => (Concluded /\ ~deal_made)

\* C24: a call of generate_opening_offer or respond_to_seller_offer of any
\* buyer agent, and a call of get_opening_price or respond_to_buyer of the
\* seller, leaves the context it was handed (budget, current_round,
\* seller_offers, your_offers, messages, product) and the seller's min_price
\* as they were; outside the driver nothing is appended and no round advances.
StrategiesPure ==
    [][(ret = NoCall /\ ret' # NoCall) =>
          /\ arg' = arg
          /\ UNCHANGED <<cfg, ctx, loc>>]_vars

StrategiesPureWitness ==
    /\ ret # NoCall
    /\ ret.fn = "respond_to_seller_offer" /\ ~ret.raised
    /\ arg.agent = "YourBuyerAgent"
    /\ ret.status = "ONGOING"
    /\ arg.your_offers # <<>>
    /\ ret.price > Last(arg.your_offers)

\* C25: in the deterministic YourBuyerAgent the random choice among the
\* response templates reaches the message text only: whichever template is
\* drawn at a buyer turn, the turn leaves the same status, the same offer
\* histories, the same deal flag, final price and round count, so sessions
\* that differ only in those draws agree on all of them.
PhrasingIndependence ==
    [][(agent = "YourBuyerAgent" /\ pc = "AWAITING_BUYER" /\ round_num > 0) =>
          \A tmpl \in Templates :
              LET r == YourBuyerAgent_respond_to_seller_offer(market, your_budget,
                           round_num + 1, your_offers, seller_price, tmpl)
              IN  /\ status' = r.status
                  /\ buyer_offer' = r.price
                  /\ your_offers' = Append(your_offers, r.price)
                  /\ seller_offers' = seller_offers
                  /\ deal_made' = (r.status = "ACCEPTED")
                  /\ final_price' = (IF r.status = "ACCEPTED"
                                     THEN Some(seller_price) ELSE None)
                  /\ current_round' = round_num + 1]_vars

PhrasingIndependenceWitness ==
    /\ agent = "YourBuyerAgent"
    /\ template = 2
    /\ pc = "RETURNED"
    /\ deal_made
    /\ Len(your_offers) >= 3

\* C26: in every reachable state the messages list alternates speakers
\* starting with the seller, never two consecutive entries with the same role;
\* the transcript of a concluded session has 2 x rounds entries when the buyer
\* accepted and 2 x rounds + 1 entries when the seller accepted or the session
\* ran out of rounds.
TranscriptShape ==
    /\ \A i \in 1..Len(messages) :
          messages[i].role = (IF i % 2 = 1 THEN "seller" ELSE "buyer")
    /\ Concluded =>
          Len(messages) = (IF status = "ACCEPTED"
                           THEN 2 * current_round
                           ELSE 2 * current_round + 1)

TranscriptShapeWitness ==
    /\ pc = "RETURNED"
    /\ status = "ACCEPTED"
    /\ current_round >= 3
    /\ Len(TheResult.conversation) = 2 * current_round

\* C27: for every buyer agent and every non-negative seller minimum, the
\* final_price of any deal is >= the seller's min_price, whether the buyer
\* accepted a seller counter or the seller accepted a buyer offer.
NoSaleBelowFloor ==
    deal_made => \A p \in final_price : p >= min_price

NoSaleBelowFloorWitness ==
    /\ pc = "RETURNED"
    /\ deal_made
    /\ status = "ACCEPTED"
    /\ min_price > 0
    /\ final_price = Some(min_price)
    /\ ~seller_accepts

\* C28: the buyer's status in round 1 is ONGOING and never ACCEPTED, so the seller's
\* opening price is never accepted; a deal concluded in round 1 is the seller
\* accepting the buyer's opening offer, and a deal closed by the buyer's
\* acceptance has rounds >= 2.
NoFirstRoundAcceptance ==
    /\ current_round <= 1 => status # "ACCEPTED"
    /\ (current_round = 1 /\ Len(your_offers) = 1) => status = "ONGOING"
    /\ (deal_made /\ current_round = 1) =>
          /\ seller_accepts
          /\ final_price = Some(your_offers[1])
    /\ (deal_made /\ status = "ACCEPTED") =>
          /\ current_round >= 2
          /\ Len(seller_offers) >= 2
          /\ final_price = Some(Last(seller_offers))
    /\ (result # None /\ deal_made /\ status = "ACCEPTED") =>
          TheResult.rounds >= 2

NoFirstRoundAcceptanceWitness ==
    /\ pc = "RETURNED"
    /\ TheResult.deal_made
    /\ TheResult.rounds = 1
    /\ seller_accepts
    /\ seller_offers = <<get_opening_price(market)>>

\* C29: in every session between the deterministic YourBuyerAgent and
\* MockSellerAgent, for all positive market prices, budgets and seller
\* minimums, your_offers is non-decreasing from round to round.
BuyerNeverRetreats ==
    (agent = "YourBuyerAgent" /\ min_price > 0) =>
        \A i \in 1..(Len(your_offers) - 1) : your_offers[i] <= your_offers[i + 1]

====
